---- MODULE Spec2Model ----
(***************************************************************************)
(* Retrieval core of the CAPS Ops AI client (src/src/App.jsx): ingestion   *)
(* of PDF documents into the chunk index (handleFileUpload), and question  *)
(* answering over that index (handleAsk).                                  *)
(*                                                                         *)
(* Conventions.                                                            *)
(*  - A JavaScript string that the code inspects character by character    *)
(*    (document text, chunk text, the query) is a sequence of one-character*)
(*    strings, so that slice, trim, split and join are computed.           *)
(*  - A JavaScript value whose type can vary (the result of fetchEmbedding,*)
(*    the text of an Answer) is a record [t, v]: t is the type tag.        *)
(*  - An async function is a task: a record with a pc naming the await it  *)
(*    is suspended at.  One action runs a task from one await to the next; *)
(*    between awaits nothing else runs (single-threaded event loop).       *)
(***************************************************************************)
EXTENDS Integers, Sequences, FiniteSets, TLC

VARIABLES docs, index, query, answer, uploads, asks, embedReqs, askCalls

vars == <<docs, index, query, answer, uploads, asks, embedReqs, askCalls>>

(***************************************************************************)
(* Bounds of the model.                                                    *)
(***************************************************************************)
\* Invocations of handleFileUpload and handleAsk in one session.
MaxCalls == 2
\* Chunks in an Index Store drawn for one ranking pass.
MaxIndex == 6
\* Chunks in the Index Store a token-overlap ranking is drawn over.
MaxOverlapIndex == 3

(***************************************************************************)
(* JavaScript values.                                                      *)
(***************************************************************************)
Null == [t |-> "null", v |-> <<>>]
Undefined == [t |-> "undefined", v |-> <<>>]
Arr(s) == [t |-> "array", v |-> s]
Str(s) == [t |-> "string", v |-> s]
Num(n) == [t |-> "number", v |-> n]

\* ToBoolean, as used by `if (qEmbedding)` and `ch.embedding || []`.
Truthy(x) ==
  CASE x.t = "null" -> FALSE
    [] x.t = "undefined" -> FALSE
    [] x.t = "array" -> TRUE
    [] x.t = "string" -> x.v # ""
    [] x.t = "number" -> x.v # 0
    [] OTHER -> TRUE

Min(a, b) == IF a < b THEN a ELSE b

(***************************************************************************)
(* Characters.                                                             *)
(***************************************************************************)
UpperChars ==
  <<"A","B","C","D","E","F","G","H","I","J","K","L","M",
    "N","O","P","Q","R","S","T","U","V","W","X","Y","Z">>
LowerChars ==
  <<"a","b","c","d","e","f","g","h","i","j","k","l","m",
    "n","o","p","q","r","s","t","u","v","w","x","y","z">>
DigitChars == {"0","1","2","3","4","5","6","7","8","9"}

\* String.prototype.toLowerCase on one ASCII character.
UpperSet == {UpperChars[k] : k \in 1..26}
toLowerCase(c) ==
  IF c \in UpperSet
    THEN LowerChars[CHOOSE k \in 1..26 : UpperChars[k] = c]
    ELSE c

\* The character class [a-z0-9] of the tokenizer's delimiter /[^a-z0-9]+/.
TokenChars == {LowerChars[k] : k \in 1..26} \cup DigitChars
IsTokenChar(c) == c \in TokenChars

\* White space as String.prototype.trim strips it.
IsSpace(c) == c \in {" ", "\t", "\n", "\r"}

\* A variant that strips nothing.
trimNothing(s) == s

\* String.prototype.trim.
trim(s) ==
  LET keep == {i \in 1..Len(s) : ~IsSpace(s[i])}
  IN IF keep = {} THEN <<>>
     ELSE LET lo == CHOOSE i \in keep : \A j \in keep : i <= j
              hi == CHOOSE i \in keep : \A j \in keep : j <= i
          IN SubSeq(s, lo, hi)

\* str.split(/[^a-z0-9]+/): the pieces between maximal runs of delimiter
\* characters; a leading or trailing delimiter run leaves an empty piece, and
\* the empty string splits into one empty piece.
split(s) ==
  LET n == Len(s)
      positions == [i \in 1..n |-> i]
      lo == SelectSeq(positions,
                      LAMBDA i : IsTokenChar(s[i]) /\ (i = 1 \/ ~IsTokenChar(s[i-1])))
      hi == SelectSeq(positions,
                      LAMBDA i : IsTokenChar(s[i]) /\ (i = n \/ ~IsTokenChar(s[i+1])))
      runs == [k \in 1..Len(lo) |-> SubSeq(s, lo[k], hi[k])]
  IN IF n = 0 THEN << <<>> >>
     ELSE (IF IsTokenChar(s[1]) THEN <<>> ELSE << <<>> >>)
          \o runs
          \o (IF IsTokenChar(s[n]) THEN <<>> ELSE << <<>> >>)

\* Array.prototype.filter(Boolean) on an array of strings: drops the empty ones.
filterBoolean(pieces) == SelectSeq(pieces, LAMBDA p : p # <<>>)

\* tokenize (App.jsx): lowercase, split on runs of non-alphanumerics, drop the
\* empty pieces; the empty string gives no tokens.
tokenize(str) ==
  IF str = <<>> THEN <<>>
  ELSE filterBoolean(split([i \in 1..Len(str) |-> toLowerCase(str[i])]))

(***************************************************************************)
(* Similarity.  A score is the real number n / sqrt(d), d > 0, kept exact: *)
(* cosineSim gives n = dot(a, b), d = magA * magB, and the token-overlap   *)
(* count m is n = m, d = 1.                                                *)
(***************************************************************************)
RECURSIVE SumTo(_, _, _)
SumTo(a, b, len) == IF len = 0 THEN 0 ELSE SumTo(a, b, len - 1) + a[len] * b[len]

dot(a, b) == SumTo(a, b, Min(Len(a), Len(b)))

cosineSim(a, b) ==
  LET num == dot(a, b)
      magA == SumTo(a, a, Len(a))
      magB == SumTo(b, b, Len(b))
  IN IF magA # 0 /\ magB # 0 THEN [n |-> num, d |-> magA * magB]
     ELSE [n |-> 0, d |-> 1]

\* The sign of x - y for scores x and y.
Sign(k) == IF k > 0 THEN 1 ELSE IF k < 0 THEN -1 ELSE 0
ScoreDiff(x, y) ==
  LET p == x.n * x.n * y.d
      q == y.n * y.n * x.d
  IN CASE x.n >= 0 /\ y.n >= 0 -> Sign(p - q)
       [] x.n < 0 /\ y.n < 0 -> Sign(q - p)
       [] x.n >= 0 /\ y.n < 0 -> 1
       [] OTHER -> -1

(***************************************************************************)
(* HTTP responses as fetch delivers them.  net = "error": fetch rejects.   *)
(* parses = FALSE: resp.json() rejects.  json: the parsed body.            *)
(***************************************************************************)
Obj(fields) == [t |-> "object", v |-> fields]

\* data.<name> on a parsed body that is not null.
Get(data, name) ==
  IF data.t = "object" /\ \E k \in 1..Len(data.v) : data.v[k][1] = name
    THEN data.v[CHOOSE k \in 1..Len(data.v) : data.v[k][1] = name][2]
    ELSE Undefined

NetworkError == [net |-> "error", status |-> 0, parses |-> FALSE, json |-> Null]
Http(status, json) == [net |-> "ok", status |-> status, parses |-> TRUE, json |-> json]
HttpGarbage(status) == [net |-> "ok", status |-> status, parses |-> FALSE, json |-> Null]

\* Response.ok
ok(resp) == resp.status >= 200 /\ resp.status <= 299

\* What /api/embed can answer (api/embed.js: 400/405/500 or the provider's
\* status with {error}, or 200 with {embedding}), and what can come back in
\* its place: a network failure, a body that is not JSON, JSON null, an object
\* without the field.
EmbedResponses ==
  { NetworkError,
    Http(500, Obj(<< <<"error", Str("Unexpected error")>> >>)),
    HttpGarbage(200),
    Http(200, Null),
    Http(200, Obj(<<>>)),
    Http(200, Obj(<< <<"embedding", Arr(<<>>)>> >>)),
    Http(200, Obj(<< <<"embedding", Arr(<<1, 0>>)>> >>)) }

\* What /api/answer can answer (unnamed/part_000), and what can come back in
\* its place.
AnswerResponses ==
  { NetworkError,
    Http(429, Obj(<< <<"error", Str("rate limited")>> >>)),
    HttpGarbage(200),
    Http(200, Null),
    Http(200, Obj(<<>>)),
    Http(200, Obj(<< <<"answer", Num(42)>> >>)),
    Http(200, Obj(<< <<"answer", Str("Close at 10pm.")>> >>)) }

\* fetchEmbedding (App.jsx), from the response to its fetch to the value the
\* returned promise resolves to.  Every throw inside the try is caught.
\* A variant that answers a failure with an empty vector, as api/embed.js does
\* for a provider reply without one.
fetchEmbeddingEmptyOnFailure(resp) ==
  IF resp.net = "error" \/ ~ok(resp) \/ ~resp.parses \/ resp.json.t = "null"
    THEN Arr(<<>>)
    ELSE Get(resp.json, "embedding")

fetchEmbedding(resp) ==
  IF resp.net = "error" THEN Null               \* fetch rejects
  ELSE IF ~ok(resp) THEN Null                    \* throw new Error('embed failed')
  ELSE IF ~resp.parses THEN Null                 \* resp.json() rejects
  ELSE IF resp.json.t = "null" THEN Null         \* TypeError reading data.embedding
  ELSE Get(resp.json, "embedding")               \* return data.embedding

FallbackAnswer == Str("Sorry, I was unable to generate an answer at this time.")

\* callAnswerAPI (App.jsx), likewise.
callAnswerAPI(resp) ==
  IF resp.net = "error" THEN FallbackAnswer
  ELSE IF ~ok(resp) THEN FallbackAnswer          \* throw new Error('answer failed')
  ELSE IF ~resp.parses THEN FallbackAnswer
  ELSE IF resp.json.t = "null" THEN FallbackAnswer
  ELSE Get(resp.json, "answer")                  \* return data.answer

(***************************************************************************)
(* Files the operator can select, and their extraction.                    *)
(***************************************************************************)
RECURSIVE join(_, _)
\* Array.prototype.join on an array of strings.
join(strings, sep) ==
  IF Len(strings) = 0 THEN <<>>
  ELSE IF Len(strings) = 1 THEN strings[1]
  ELSE join(SubSeq(strings, 1, Len(strings) - 1), sep) \o sep \o strings[Len(strings)]

RECURSIVE PagesText(_, _)
\* fullText after the first n pages: fullText += `\n\n${strings}` per page.
PagesText(pages, n) ==
  IF n = 0 THEN <<>>
  ELSE PagesText(pages, n - 1) \o <<"\n", "\n">> \o join(pages[n], <<" ">>)

\* extractPdf (App.jsx): the text and page count of a PDF that pdf.js parses,
\* and { text: '', pages: 0 } when anything in the try throws.
extractPdf(file) ==
  IF file.valid
    THEN [text |-> PagesText(file.pages, Len(file.pages)), pages |-> Len(file.pages)]
    ELSE [text |-> <<>>, pages |-> 0]

\* A text item of n characters in which no two 500-character blocks agree.
Filler(n) ==
  [i \in 1..n |-> IF i % 7 = 0 THEN " " ELSE LowerChars[(((i % 7) * (i % 5)) % 26) + 1]]

ManualPdf ==
  [name |-> "manual.pdf", valid |-> TRUE,
   pages |-> << << <<"C","l","o","s","e">>, <<"a","t">>, <<"1","0","p","m",".">> >> >>]
MenuPdf ==
  [name |-> "menu.pdf", valid |-> TRUE,
   pages |-> << << <<"s","u","b">> >>, << <<"a","t">>, <<"a","t">> >> >>]
CorruptPdf == [name |-> "scan.pdf", valid |-> FALSE, pages |-> <<>>]
LongPdf(n) == [name |-> "long.pdf", valid |-> TRUE, pages |-> << << Filler(n) >> >>]

(***************************************************************************)
(* Ranking (handleAsk, after the query embedding has resolved).            *)
(***************************************************************************)
\* const size = 500 (handleFileUpload)
size == 500
\* scored.slice(0, 5)
TopK == 5
\* '\n---\n'
Separator == <<"\n", "-", "-", "-", "\n">>

\* A variant that counts from the chunk's side: the chunk tokens that occur in
\* the query.
matchesOfChunk(qTokens, cTokens) ==
  Len(SelectSeq(cTokens, LAMBDA t : \E k \in 1..Len(qTokens) : qTokens[k] = t))

\* qTokens.filter(t => cTokens.includes(t)).length
matches(qTokens, cTokens) ==
  Len(SelectSeq(qTokens, LAMBDA t : \E k \in 1..Len(cTokens) : cTokens[k] = t))

\* { ...ch, score }
Scored(ch, score) ==
  [id |-> ch.id, docId |-> ch.docId, text |-> ch.text, embedding |-> ch.embedding,
   score |-> score]

\* The two branches of `if (qEmbedding)`: index.map(...) by cosine similarity,
\* or by token overlap with the question.
scoreIndex(qEmbedding, question, idx) ==
  IF Truthy(qEmbedding)
    THEN [k \in 1..Len(idx) |->
            Scored(idx[k],
                   cosineSim(qEmbedding.v,
                             IF Truthy(idx[k].embedding) THEN idx[k].embedding.v ELSE <<>>))]
    ELSE LET qTokens == tokenize(question)
         IN [k \in 1..Len(idx) |->
               Scored(idx[k], [n |-> matches(qTokens, tokenize(idx[k].text)), d |-> 1])]

\* A variant that puts x before the elements whose score equals its own.
InsertBeforeEqual(sorted, x) ==
  LET before == {k \in 1..Len(sorted) : ScoreDiff(sorted[k].score, x.score) > 0}
      at == Cardinality(before)
  IN SubSeq(sorted, 1, at) \o <<x>> \o SubSeq(sorted, at + 1, Len(sorted))

\* One insertion of a stable descending sort: x goes after every element whose
\* score is not lower than its own.
InsertByScore(sorted, x) ==
  LET before == {k \in 1..Len(sorted) : ScoreDiff(sorted[k].score, x.score) >= 0}
      at == Cardinality(before)
  IN SubSeq(sorted, 1, at) \o <<x>> \o SubSeq(sorted, at + 1, Len(sorted))

RECURSIVE sortPrefix(_, _)
sortPrefix(arr, n) ==
  IF n = 0 THEN <<>> ELSE InsertByScore(sortPrefix(arr, n - 1), arr[n])

\* scored.sort((a, b) => b.score - a.score): Array.prototype.sort is stable, so
\* the result is the descending order that keeps equal scores in array order.
sortByScore(arr) == sortPrefix(arr, Len(arr))

\* A variant that stops one element early.
sliceShort(arr, from, to) == SubSeq(arr, from + 1, Min(to, Len(arr)) - 1)

\* Array.prototype.slice and String.prototype.slice, for 0 <= from <= to.
slice(arr, from, to) == SubSeq(arr, from + 1, Min(to, Len(arr)))

\* A variant that ends every chunk text, the last too, with the separator.
contextOfTerminated(top) == join([k \in 1..Len(top) |-> top[k].text \o Separator], <<>>)

\* top.map(ch => ch.text).join('\n---\n')
contextOf(top) == join([k \in 1..Len(top) |-> top[k].text], Separator)

(***************************************************************************)
(* State.                                                                  *)
(*   docs, index, query, answer: the component's useState cells.           *)
(*   uploads: the invocations of handleFileUpload, in order of invocation. *)
(*   asks: the invocations of handleAsk that passed the empty-question     *)
(*         check, in order of invocation.                                  *)
(*   embedReqs: per ingested document, the embedding requests it issued.   *)
(*   askCalls: how many times handleAsk has been invoked.                  *)
(***************************************************************************)
Init ==
  /\ docs = <<>>
  /\ index = <<>>
  /\ query = <<>>
  /\ answer = Null
  /\ uploads = <<>>
  /\ asks = <<>>
  /\ embedReqs = <<>>
  /\ askCalls = 0

(***************************************************************************)
(* handleFileUpload.                                                       *)
(***************************************************************************)
\* uuid(): an identifier no other call returns.  The n-th call made by the
\* k-th invocation of handleFileUpload returns <<k, n>>.
uuid(k, n) == <<k, n>>

\* The task at the head of the for-of loop over `files`, about to await
\* extractPdf(file) for the f-th of them, or past the loop.  uuids counts the
\* task's calls of uuid().
UploadTask(files, f, uuids) ==
  [files |-> files, f |-> f, pc |-> IF f <= Len(files) THEN "extract" ELSE "done",
   text |-> <<>>, pages |-> 0, docId |-> <<>>, newChunks |-> <<>>, i |-> 0,
   chunkId |-> <<>>, chunkText |-> <<>>, reqs |-> 0, uuids |-> uuids]

\* setDocs(prev => [...prev, newDoc])
setDocs(prev, newDoc) == Append(prev, newDoc)

\* A variant that appends the chunks last slice first.
setIndexLastFirst(prev, newChunks) ==
  prev \o [k \in 1..Len(newChunks) |-> newChunks[Len(newChunks) + 1 - k]]

\* setIndex(prev => [...prev, ...newChunks])
setIndex(prev, newChunks) == prev \o newChunks

\* The head of `for (let i = 0; i < text.length; i += size)` for task u:
\* either the next slice is cut, chunkId = uuid() and its embedding requested,
\* or the document and its chunks are appended and the loop over the files
\* goes on.
ChunkLoop(k, u) ==
  IF u.i < Len(u.text)
    THEN /\ uploads' = [uploads EXCEPT ![k] =
                          [u EXCEPT !.pc = "embed",
                                    !.chunkText = slice(u.text, u.i, u.i + size),
                                    !.chunkId = uuid(k, u.uuids + 1),
                                    !.uuids = @ + 1,
                                    !.reqs = @ + 1]]
         /\ UNCHANGED <<docs, index, embedReqs>>
    ELSE /\ docs' = setDocs(docs, [id |-> u.docId, name |-> u.files[u.f].name,
                                   pages |-> u.pages, content |-> u.text])
         /\ index' = setIndex(index, u.newChunks)
         /\ embedReqs' = Append(embedReqs, [docId |-> u.docId, n |-> u.reqs])
         /\ uploads' = [uploads EXCEPT ![k] = UploadTask(u.files, u.f + 1, u.uuids)]

\* The operator selects files: handleFileUpload runs to its first await.
UploadStart(lists) ==
  /\ \E files \in lists : uploads' = Append(uploads, UploadTask(files, 1, 0))
  /\ UNCHANGED <<docs, index, query, answer, asks, embedReqs, askCalls>>

\* extractPdf(file) resolves: docId = uuid(), then the chunk loop starts.
UploadExtracted(k) ==
  /\ uploads[k].pc = "extract"
  /\ LET r == extractPdf(uploads[k].files[uploads[k].f])
         u == [uploads[k] EXCEPT !.text = r.text, !.pages = r.pages,
                                 !.docId = uuid(k, uploads[k].uuids + 1), !.uuids = @ + 1]
     IN ChunkLoop(k, u)
  /\ UNCHANGED <<query, answer, asks, askCalls>>

\* fetchEmbedding(chunkText) resolves on response resp: the chunk is pushed,
\* i += size.
UploadEmbeddedWith(k, resp) ==
  /\ uploads[k].pc = "embed"
  /\ LET t == uploads[k]
         u == [t EXCEPT !.newChunks =
                          Append(@, [id |-> t.chunkId, docId |-> t.docId,
                                     text |-> t.chunkText,
                                     embedding |-> fetchEmbedding(resp)]),
                        !.i = @ + size,
                        !.chunkId = <<>>, !.chunkText = <<>>]
     IN ChunkLoop(k, u)
  /\ UNCHANGED <<query, answer, asks, askCalls>>

UploadEmbedded(k, responses) == \E resp \in responses : UploadEmbeddedWith(k, resp)

(***************************************************************************)
(* handleAsk.                                                              *)
(***************************************************************************)
BlankQuery == <<" ", " ">>
CloseQuery == <<" ", "c","l","o","s","e", " ", "a","t", "?">>
SubQuery == <<"a","t", " ", "A","T", " ", "s","u","b">>

\* onChange of the question input: setQuery(e.target.value)
TypeQuery(q) ==
  /\ q # query
  /\ query' = q
  /\ UNCHANGED <<docs, index, answer, uploads, asks, embedReqs, askCalls>>

Ids(chunks) == [k \in 1..Len(chunks) |-> chunks[k].id]

\* handleAsk suspended at `await fetchEmbedding(question)`.  idx is the `index`
\* of the render whose handleAsk was invoked: the function closes over it.
\* scored keeps the id and score of each element of the sorted `scored` array.
\* log lists, in order, the state writes and requests the invocation has made.
AskTask(question, idx) ==
  [question |-> question, idx |-> idx, pc |-> "embed",
   qEmbedding |-> Undefined, scored |-> <<>>, top |-> <<>>, context |-> <<>>,
   answerText |-> Undefined, storeIds |-> <<>>,
   log |-> <<"setAnswer(null)", "POST /api/embed">>]

\* The question is submitted (button or Enter): handleAsk runs to its first
\* await, or returns at once when the trimmed question is empty.
handleAsk ==
  /\ askCalls' = askCalls + 1
  /\ LET question == trim(query)
     IN IF question = <<>>
          THEN UNCHANGED <<answer, asks>>
          ELSE /\ answer' = Null
               /\ asks' = Append(asks, AskTask(question, index))
  /\ UNCHANGED <<docs, index, query, uploads, embedReqs>>

\* handleAsk from the resolution of fetchEmbedding(question) to
\* `await callAnswerAPI(context, question)`: the task with its ranking done and
\* `log` as its record of writes and requests.  store is the Index Store at
\* that moment, which the code does not read.
rankedTask(a, qEmbedding, store, log) ==
  LET scored == sortByScore(scoreIndex(qEmbedding, a.question, a.idx))
      top == slice(scored, 0, TopK)
  IN [a EXCEPT !.pc = "answer", !.qEmbedding = qEmbedding,
               !.scored = [k \in 1..Len(scored) |->
                             [id |-> scored[k].id, score |-> scored[k].score]],
               !.top = top, !.context = contextOf(top),
               !.storeIds = Ids(store),
               !.log = log]

\* A variant that asks for the query embedding a second time when the first
\* attempt gave none.
askRankedRetrying(a, qEmbedding, store) ==
  rankedTask(a, qEmbedding, store,
             IF Truthy(qEmbedding) THEN Append(a.log, "POST /api/answer")
             ELSE a.log \o <<"POST /api/embed", "POST /api/answer">>)

askRanked(a, qEmbedding, store) ==
  rankedTask(a, qEmbedding, store, Append(a.log, "POST /api/answer"))

\* fetchEmbedding(question) resolves on response resp.
AskEmbeddedWith(k, resp) ==
  /\ asks[k].pc = "embed"
  /\ asks' = [asks EXCEPT ![k] = askRanked(asks[k], fetchEmbedding(resp), index)]
  /\ UNCHANGED <<docs, index, query, answer, uploads, embedReqs, askCalls>>

AskEmbedded(k, responses) == \E resp \in responses : AskEmbeddedWith(k, resp)

\* handleAsk from the resolution of callAnswerAPI, on response resp, to its
\* end: setAnswer({ text: answerText, sources: top }).
AskAnsweredWith(k, resp) ==
  /\ asks[k].pc = "answer"
  /\ LET answerText == callAnswerAPI(resp)
     IN /\ answer' = [t |-> "Answer", text |-> answerText, sources |-> asks[k].top]
        /\ asks' = [asks EXCEPT ![k] = [@ EXCEPT !.pc = "done",
                                                 !.answerText = answerText,
                                                 !.log = Append(@, "setAnswer")]]
  /\ UNCHANGED <<docs, index, query, uploads, embedReqs, askCalls>>

AskAnswered(k, responses) == \E resp \in responses : AskAnsweredWith(k, resp)

(***************************************************************************)
(* The session: uploads and asks interleave at their awaits.  At most      *)
(* MaxCalls invocations of the two handlers are followed.                  *)
(***************************************************************************)
SessionUploads == { <<ManualPdf>>, <<CorruptPdf, LongPdf(600)>> }
SessionQueries == { BlankQuery, CloseQuery }
SessionEmbedResponses ==
  { Http(500, Obj(<< <<"error", Str("Unexpected error")>> >>)),
    Http(200, Obj(<< <<"embedding", Arr(<<1, 0>>)>> >>)) }
MoreCalls == Len(uploads) + askCalls < MaxCalls

Next ==
  \/ MoreCalls /\ UploadStart(SessionUploads)
  \/ \E k \in 1..Len(uploads) : UploadExtracted(k)
  \/ \E k \in 1..Len(uploads) : UploadEmbedded(k, SessionEmbedResponses)
  \/ MoreCalls /\ \E q \in SessionQueries : TypeQuery(q)
  \/ MoreCalls /\ handleAsk
  \/ \E k \in 1..Len(asks) : AskEmbedded(k, SessionEmbedResponses)
  \/ \E k \in 1..Len(asks) : AskAnswered(k, AnswerResponses)

Spec == Init /\ [][Next]_vars

(***************************************************************************)
(* One ask over an Index Store that earlier single-document uploads left:  *)
(* every sequence of at most MaxIndex chunks drawn from RankPool, the k-th *)
(* of them ingested by the k-th upload.                                    *)
(***************************************************************************)
RankPool ==
  { [file |-> ManualPdf, embedding |-> Arr(<<1, 0>>)],
    [file |-> MenuPdf, embedding |-> Arr(<<-1, 1>>)],
    [file |-> LongPdf(498), embedding |-> Null] }
\* The generation request fails or succeeds.
RankAnswerResponses ==
  { Http(429, Obj(<< <<"error", Str("rate limited")>> >>)),
    Http(200, Obj(<< <<"answer", Str("Close at 10pm.")>> >>)) }
RankQueries == { BlankQuery, CloseQuery, SubQuery }

\* The stores after the k-th of n uploads has ingested the k-th of n one-chunk
\* files drawn from pool, the embedding request of each answered as drawn.
IngestedStores(pool, max) ==
  \E n \in 0..max : \E pick \in [1..n -> pool] :
    /\ docs = [k \in 1..n |->
                 [id |-> uuid(k, 1), name |-> pick[k].file.name,
                  pages |-> extractPdf(pick[k].file).pages,
                  content |-> extractPdf(pick[k].file).text]]
    /\ index = [k \in 1..n |->
                  [id |-> uuid(k, 2), docId |-> uuid(k, 1),
                   text |-> extractPdf(pick[k].file).text,
                   embedding |-> pick[k].embedding]]
    /\ embedReqs = [k \in 1..n |-> [docId |-> uuid(k, 1), n |-> 1]]
    /\ uploads = [k \in 1..n |-> UploadTask(<<pick[k].file>>, 2, 2)]
    /\ query = <<>>
    /\ answer = Null
    /\ asks = <<>>
    /\ askCalls = 0

InitRank == IngestedStores(RankPool, MaxIndex)

NextRank ==
  \/ askCalls = 0 /\ \E q \in RankQueries : TypeQuery(q)
  \/ askCalls = 0 /\ handleAsk
  \/ \E k \in 1..Len(asks) : AskEmbedded(k, EmbedResponses)
  \/ \E k \in 1..Len(asks) : AskAnswered(k, RankAnswerResponses)

SpecRank == InitRank /\ [][NextRank]_vars

(***************************************************************************)
(* Asking with the embedding service down or up, over every index of at    *)
(* most MaxOverlapIndex chunks drawn from OverlapPool.                     *)
(***************************************************************************)
StorePdf ==
  [name |-> "closing.pdf", valid |-> TRUE,
   pages |-> << << <<"c","l","o","s","i","n","g">>,
                   <<"p","r","o","c","e","d","u","r","e">>, <<"f","o","r">>,
                   <<"t","h","e">>, <<"s","t","o","r","e">> >> >>]
FryerPdf ==
  [name |-> "fryer.pdf", valid |-> TRUE,
   pages |-> << << <<"F","r","y","-","o","i","l",":">>, <<"3","5","0","F","!">> >> >>]
StoreQuery ==
  <<"H","o","w"," ","d","o"," ","I"," ","c","l","o","s","e"," ",
    "t","h","e"," ","s","t","o","r","e","?">>
OverlapPool ==
  { [file |-> ManualPdf, embedding |-> Arr(<<1, 0>>)],
    [file |-> MenuPdf, embedding |-> Null],
    [file |-> StorePdf, embedding |-> Null],
    [file |-> FryerPdf, embedding |-> Arr(<<0, 1>>)],
    [file |-> LongPdf(498), embedding |-> Null] }
OverlapQueries == { BlankQuery, CloseQuery, SubQuery, StoreQuery }
OverlapEmbedResponses ==
  { NetworkError,
    Http(500, Obj(<< <<"error", Str("Unexpected error")>> >>)),
    Http(200, Obj(<< <<"embedding", Arr(<<1, 0>>)>> >>)) }

InitOverlap == IngestedStores(OverlapPool, MaxOverlapIndex)

NextOverlap ==
  \/ askCalls = 0 /\ \E q \in OverlapQueries : TypeQuery(q)
  \/ askCalls = 0 /\ handleAsk
  \/ \E k \in 1..Len(asks) : AskEmbedded(k, OverlapEmbedResponses)
  \/ \E k \in 1..Len(asks) : AskAnswered(k, RankAnswerResponses)

SpecOverlap == InitOverlap /\ [][NextOverlap]_vars

(***************************************************************************)
(* Ingestion alone: uploads one after another, each of one or two files.   *)
(***************************************************************************)
IngestUploads ==
  { <<CorruptPdf>>, <<ManualPdf>>, <<MenuPdf>>, <<LongPdf(498)>>, <<LongPdf(499)>>,
    <<LongPdf(598)>>, <<LongPdf(998)>>, <<LongPdf(1001)>>,
    <<CorruptPdf, ManualPdf>>, <<LongPdf(499), CorruptPdf>> }

NoUploadRunning == \A k \in 1..Len(uploads) : uploads[k].pc = "done"

NextIngest ==
  \/ MoreCalls /\ NoUploadRunning /\ UploadStart(IngestUploads)
  \/ \E k \in 1..Len(uploads) : UploadExtracted(k)
  \/ \E k \in 1..Len(uploads) : UploadEmbedded(k, SessionEmbedResponses)

SpecIngest == Init /\ [][NextIngest]_vars

(***************************************************************************)
(* Properties.                                                             *)
(***************************************************************************)
Ranked(a) == a.pc \in {"answer", "done"}

\* The Answer an invocation of handleAsk that has ended has written.
AnswerOf(a) == [t |-> "Answer", text |-> a.answerText, sources |-> a.top]

\* The generation request failed: a network error, a non-success status, a
\* body that is not JSON, or JSON without a string `answer` field.
GenerationFailed(resp) ==
  \/ resp.net = "error"
  \/ ~ok(resp)
  \/ ~resp.parses
  \/ Get(resp.json, "answer").t # "string"

\* C1: whatever the outcome of the generation request, the Answer handleAsk
\* stores has a string as its text, and when the request failed (network error,
\* non-success status, malformed body) the text is the fixed fallback sentence.
C1_AnswerTextOnFailure ==
  [][\A k \in 1..Len(asks) : \A resp \in AnswerResponses :
       AskAnsweredWith(k, resp) =>
         /\ answer'.t = "Answer"
         /\ answer'.text.t = "string"
         /\ GenerationFailed(resp) => answer'.text = FallbackAnswer]_vars

\* C2: once every ask that was issued has completed, and there were at least
\* two, the Answer slot holds the Answer of the ask issued last.
C2_LaterAskSupersedes ==
  (Len(asks) >= 2 /\ \A k \in 1..Len(asks) : asks[k].pc = "done")
    => answer = AnswerOf(asks[Len(asks)])

\* The embedding request failed: a network error, a non-success status, a
\* body that is not JSON, or JSON without an `embedding` field.
EmbeddingFailed(resp) ==
  \/ resp.net = "error"
  \/ ~ok(resp)
  \/ ~resp.parses
  \/ resp.json.t # "object"
  \/ \A f \in 1..Len(resp.json.v) : resp.json.v[f][1] # "embedding"

ScoreOfId(scored, id) == scored[CHOOSE j \in 1..Len(scored) : scored[j].id = id].score

\* C3: when the embedding request fails, fetchEmbedding resolves to null or
\* undefined; and an ask that got null or undefined for its query has scored
\* every chunk of its index by token overlap with the question and has gone on
\* to the generation request.
C3_EmbeddingFailureFallsBack ==
  /\ \A resp \in EmbedResponses :
       EmbeddingFailed(resp) => fetchEmbedding(resp).t \in {"null", "undefined"}
  /\ \A k \in 1..Len(asks) :
       LET a == asks[k]
       IN /\ a.pc \in {"embed", "answer", "done"}
          /\ (a.pc = "answer" /\ a.qEmbedding.t \in {"null", "undefined"}) =>
               /\ Len(a.scored) = Len(a.idx)
               /\ \A j \in 1..Len(a.idx) :
                    /\ \E m \in 1..Len(a.scored) : a.scored[m].id = a.idx[j].id
                    /\ ScoreOfId(a.scored, a.idx[j].id) =
                         [n |-> matches(tokenize(a.question), tokenize(a.idx[j].text)),
                          d |-> 1]
               /\ a.log = <<"setAnswer(null)", "POST /api/embed", "POST /api/answer">>

\* An ask whose query embedding failed has ranked an index in which a chunk
\* shares two tokens with the question: no cosine similarity is that high.
C3_Witness ==
  \E k \in 1..Len(asks) :
    /\ asks[k].pc = "answer"
    /\ ~Truthy(asks[k].qEmbedding)
    /\ \E j \in 1..Len(asks[k].scored) : asks[k].scored[j].score.n >= 2
    /\ \E j \in 1..Len(asks[k].idx) : Truthy(asks[k].idx[j].embedding)

\* C4: the ranking pass of an ask gives a score to exactly the chunks that are
\* in the Index Store at the moment the pass runs.
C4_RankingScoresWholeStore ==
  \A k \in 1..Len(asks) :
    Ranked(asks[k]) =>
      {asks[k].scored[j].id : j \in 1..Len(asks[k].scored)}
        = {asks[k].storeIds[j] : j \in 1..Len(asks[k].storeIds)}

NumSlices(text) == (Len(text) + size - 1) \div size
ExpectedSlice(text, j) == SubSeq(text, (j - 1) * size + 1, Min(j * size, Len(text)))
ChunksAt(docId) == {j \in 1..Len(index) : index[j].docId = docId}

\* C5: in every state the chunks of a document that are in the Index Store are
\* all of its slices, in slice order, in adjacent places, and every chunk there
\* belongs to a document of the document set; and an ingestion has at most one
\* embedding request outstanding, for the slice after those already resolved.
C5_DocumentsAppendedWhole ==
  /\ \A j \in 1..Len(index) : \E d \in 1..Len(docs) : docs[d].id = index[j].docId
  /\ \A d \in 1..Len(docs) :
       LET P == ChunksAt(docs[d].id)
       IN /\ Cardinality(P) = NumSlices(docs[d].content)
          /\ \A j \in P :
               LET first == CHOOSE m \in P : \A n \in P : m <= n
               IN /\ j - first + 1 <= Cardinality(P)
                  /\ index[j].text = ExpectedSlice(docs[d].content, j - first + 1)
  /\ \A k \in 1..Len(uploads) :
       LET u == uploads[k]
       IN /\ u.reqs = Len(u.newChunks) + (IF u.pc = "embed" THEN 1 ELSE 0)
          /\ \A j \in 1..Len(u.newChunks) :
               u.newChunks[j].text = ExpectedSlice(u.text, j)
          /\ u.pc = "embed" => u.chunkText = ExpectedSlice(u.text, Len(u.newChunks) + 1)

\* Two uploads overlapped: the one started second appended its two-chunk
\* document first, and the other has appended its own two-chunk document too.
C5_Witness ==
  /\ Len(index) = 4
  /\ index[1].docId[1] = 2 /\ index[2].docId = index[1].docId
  /\ index[3].docId[1] = 1 /\ index[4].docId = index[3].docId

AllSpace(s) == \A i \in 1..Len(s) : IsSpace(s[i])

\* C6: an invocation of handleAsk while the question consists of white space
\* only issues no request and leaves the Answer slot, the document set, the
\* Index Store and every running task as they are.
C6_BlankQuestionIsNoOp ==
  [][(askCalls' = askCalls + 1 /\ AllSpace(query)) =>
       UNCHANGED <<answer, docs, index, asks, uploads, embedReqs, query>>]_vars

\* A blank question has been submitted after a question that was answered, and
\* the Answer is still displayed.
C6_Witness ==
  /\ askCalls = 2 /\ Len(asks) = 1
  /\ Len(query) > 0 /\ AllSpace(query)
  /\ asks[1].pc = "done" /\ answer = AnswerOf(asks[1])

\* C7: an ask with a non-empty question has, at each of its awaits, made exactly
\* these writes and requests in this order: the slot cleared and one embedding
\* request; then one generation request; then, the generation request resolved,
\* one Answer written.  A displayed Answer was written by an ask that has ended.
C7_OneRequestEach ==
  /\ Len(asks) <= askCalls
  /\ \A k \in 1..Len(asks) :
       LET a == asks[k]
       IN /\ a.question # <<>>
          /\ a.pc = "embed" => a.log = <<"setAnswer(null)", "POST /api/embed">>
          /\ a.pc = "answer" =>
               a.log = <<"setAnswer(null)", "POST /api/embed", "POST /api/answer">>
          /\ a.pc = "done" =>
               a.log = <<"setAnswer(null)", "POST /api/embed", "POST /api/answer",
                         "setAnswer">>
  /\ answer.t = "Answer" =>
       \E k \in 1..Len(asks) : asks[k].pc = "done" /\ answer = AnswerOf(asks[k])

\* An ask has ended on the path where the embedding request failed, the index
\* was empty and the generation request failed.
C7_Witness ==
  \E k \in 1..Len(asks) :
    /\ asks[k].pc = "done"
    /\ ~Truthy(asks[k].qEmbedding)
    /\ asks[k].idx = <<>>
    /\ asks[k].answerText = FallbackAnswer

RECURSIVE Offset(_, _)
\* Where the j-th text starts in the join of the texts of top, less one.
Offset(top, j) ==
  IF j = 1 THEN 0 ELSE Offset(top, j - 1) + Len(top[j - 1].text) + Len(Separator)

\* The context of a ranked ask is the texts of its top chunks, in rank order,
\* with the separator between neighbours; there are at most TopK of them, each
\* of at most `size` characters.
ContextIsJoin(a) ==
  LET k == Len(a.top)
  IN /\ k <= TopK
     /\ \A j \in 1..k : Len(a.top[j].text) <= size
     /\ Len(a.context) = IF k = 0 THEN 0
                         ELSE Offset(a.top, k) + Len(a.top[k].text)
     /\ \A j \in 1..k :
          /\ SubSeq(a.context, Offset(a.top, j) + 1,
                    Offset(a.top, j) + Len(a.top[j].text)) = a.top[j].text
          /\ j > 1 =>
               SubSeq(a.context, Offset(a.top, j) - Len(Separator) + 1,
                      Offset(a.top, j)) = Separator

\* C8 as stated: the context is the join of the top-k texts in rank order, and
\* it is at most k * 500 characters long.
C8_ContextWithinKChunks ==
  \A n \in 1..Len(asks) :
    Ranked(asks[n]) =>
      /\ ContextIsJoin(asks[n])
      /\ Len(asks[n].context) <= Len(asks[n].top) * size

\* C8 amended: the context is the join of the top-k texts in rank order, and it
\* is at most k * 500 + (k - 1) * 5 characters long for k >= 1 (the separator
\* has 5 characters), and empty for k = 0.
C8_ContextWithinKChunksAndSeparators ==
  \A n \in 1..Len(asks) :
    Ranked(asks[n]) =>
      LET k == Len(asks[n].top)
      IN /\ ContextIsJoin(asks[n])
         /\ Len(asks[n].context) <=
              IF k = 0 THEN 0 ELSE k * size + (k - 1) * Len(Separator)

\* An ask has assembled its context from five chunks of 500 characters each.
C8_Witness ==
  \E n \in 1..Len(asks) :
    /\ Ranked(asks[n])
    /\ Len(asks[n].top) = TopK
    /\ \A j \in 1..TopK : Len(asks[n].top[j].text) = size
    /\ Len(asks[n].context) = TopK * size + (TopK - 1) * Len(Separator)

Pos(idx, id) == CHOOSE j \in 1..Len(idx) : idx[j].id = id

\* C9: the sources of the displayed Answer, for the index of N chunks the ask
\* ranked and the scores it gave them: there are min(N, 5), each a chunk of the
\* index with its score, no two the same chunk; their scores do not increase;
\* no chunk left out has a higher score than one of them; and two of them with
\* equal scores are in the order they have in the index.
C9_TopFiveStable ==
  \A n \in 1..Len(asks) :
    (asks[n].pc = "done" /\ answer = AnswerOf(asks[n])) =>
      LET a == asks[n]
          N == Len(a.idx)
          src == answer.sources
          K == Len(src)
          inside == {src[j].id : j \in 1..K}
      IN /\ K = Min(N, 5)
         /\ Len(a.scored) = N
         /\ \A j \in 1..N : \E m \in 1..N : a.scored[m].id = a.idx[j].id
         /\ \A j \in 1..K :
              /\ \E m \in 1..N : a.idx[m].id = src[j].id
              /\ src[j] = Scored(a.idx[Pos(a.idx, src[j].id)], ScoreOfId(a.scored, src[j].id))
         /\ Cardinality(inside) = K
         /\ \A j \in 1..(K - 1) : ScoreDiff(src[j].score, src[j + 1].score) >= 0
         /\ \A m \in 1..N :
              a.idx[m].id \notin inside =>
                \A j \in 1..K :
                  ScoreDiff(ScoreOfId(a.scored, a.idx[m].id), src[j].score) <= 0
         /\ \A i \in 1..K : \A j \in (i + 1)..K :
              ScoreDiff(src[i].score, src[j].score) = 0 =>
                Pos(a.idx, src[i].id) < Pos(a.idx, src[j].id)

\* An Answer is displayed for an index of more than five chunks, with two
\* sources of equal score and two of different scores.
C9_Witness ==
  /\ answer.t = "Answer"
  /\ Len(asks) = 1 /\ Len(asks[1].idx) > TopK
  /\ \E i, j \in 1..Len(answer.sources) :
       i # j /\ ScoreDiff(answer.sources[i].score, answer.sources[j].score) = 0
  /\ \E i, j \in 1..Len(answer.sources) :
       ScoreDiff(answer.sources[i].score, answer.sources[j].score) > 0

CeilDiv(n, m) == IF n % m = 0 THEN n \div m ELSE n \div m + 1

\* The texts of the chunks of a document, in Index Store order.
ChunkTexts(docId) ==
  LET cs == SelectSeq(index, LAMBDA ch : ch.docId = docId)
  IN [j \in 1..Len(cs) |-> cs[j].text]

RECURSIVE Concat(_, _)
Concat(texts, n) == IF n = 0 THEN <<>> ELSE Concat(texts, n - 1) \o texts[n]

\* The documents the k-th invocation of handleFileUpload has appended.
DocsOf(k) == SelectSeq(docs, LAMBDA d : d.id[1] = k)

\* C10: every document of the document set has ceil(len(content) / 500) chunks
\* in the Index Store and as many embedding requests were issued for it; each
\* of its chunks but the last has 500 characters; its chunk texts, concatenated
\* in order, are its content.  An invocation of handleFileUpload has appended
\* one document for each file it is done with, with the text extracted from
\* the file; for a file whose extraction fails that is a document with empty
\* content and no chunks.
C10_ChunkingRoundTrip ==
  /\ Len(embedReqs) = Len(docs)
  /\ \A d \in 1..Len(docs) :
       LET texts == ChunkTexts(docs[d].id)
           n == CeilDiv(Len(docs[d].content), 500)
       IN /\ Len(texts) = n
          /\ embedReqs[d].docId = docs[d].id
          /\ embedReqs[d].n = n
          /\ \A j \in 1..(n - 1) : Len(texts[j]) = 500
          /\ Concat(texts, n) = docs[d].content
  /\ \A k \in 1..Len(uploads) :
       LET u == uploads[k]
           mine == DocsOf(k)
       IN /\ Len(mine) = u.f - 1
          /\ \A j \in 1..Len(mine) :
               /\ mine[j].name = u.files[j].name
               /\ mine[j].content = extractPdf(u.files[j]).text
               /\ ~u.files[j].valid =>
                    /\ mine[j].content = <<>>
                    /\ mine[j].pages = 0
                    /\ ChunkTexts(mine[j].id) = <<>>

\* The document set holds the empty document of a file whose extraction
\* failed, with no chunks; a document of two full chunks; and a document whose
\* last chunk is shorter than the one before it.
C10_Witness ==
  /\ \E k \in 1..Len(uploads) : \E j \in 1..Len(DocsOf(k)) :
       /\ ~uploads[k].files[j].valid
       /\ ChunkTexts(DocsOf(k)[j].id) = <<>>
  /\ \E d \in 1..Len(docs) :
       /\ Len(docs[d].content) = 2 * size
       /\ Len(ChunkTexts(docs[d].id)) = 2
  /\ \E d \in 1..Len(docs) :
       LET texts == ChunkTexts(docs[d].id)
       IN Len(texts) = 2 /\ Len(texts[1]) = size /\ Len(texts[2]) < size

\* toks is the token sequence of s: with l the lowercased s, there is one
\* token for each place of l where a run of characters of a-z, 0-9 begins, in
\* order, and the token is that whole run.
IsTokenSequenceOf(toks, s) ==
  LET alnum(i) == toLowerCase(s[i]) \in TokenChars
  IN \A begins \in {SelectSeq([i \in 1..Len(s) |-> i],
                              LAMBDA i : alnum(i) /\ (i = 1 \/ ~alnum(i - 1)))} :
       /\ Len(toks) = Len(begins)
       /\ \A k \in 1..Len(toks) :
            \A tok \in {toks[k]} :
              LET first == begins[k]
                  last == first + Len(tok) - 1
              IN /\ Len(tok) >= 1
                 /\ last <= Len(s)
                 /\ \A i \in 1..Len(tok) :
                      /\ alnum(first + i - 1)
                      /\ tok[i] = toLowerCase(s[first + i - 1])
                 /\ last = Len(s) \/ ~alnum(last + 1)

\* The number of places of qTokens whose token occurs in cTokens.
OccurrencesFound(qTokens, cTokens) ==
  Cardinality({i \in 1..Len(qTokens) : \E j \in 1..Len(cTokens) : cTokens[j] = qTokens[i]})

FellBack(a) == Ranked(a) /\ ~Truthy(a.qEmbedding)

\* C11: the empty string and a string of delimiters have no tokens; and when an
\* ask has ranked by token overlap, with the question and every chunk text
\* tokenized by tokenize (lowercase, maximal runs of a-z and 0-9), the score of
\* each chunk is the number of query token occurrences whose token occurs in
\* the chunk's tokens, which lies between 0 and the number of query tokens.
\* So "at AT sub" scores 2 against "Close at 10pm." and 3 against "sub", "at at";
\* " close at?" scores 2 and 1; "How do I close the store?" scores 2 against
\* "closing procedure for the store" and 0 against "Fry-oil: 350F!".
C11_OverlapCountsQueryOccurrences ==
  /\ tokenize(<<>>) = <<>>
  /\ tokenize(BlankQuery) = <<>>
  /\ \A n \in 1..Len(asks) :
       FellBack(asks[n]) =>
         LET a == asks[n]
         IN \A qTokens \in {tokenize(a.question)} :
            /\ IsTokenSequenceOf(qTokens, a.question)
            /\ a.question = trim(SubQuery) => qTokens = << <<"a","t">>, <<"a","t">>, <<"s","u","b">> >>
            /\ a.question = trim(CloseQuery) => qTokens = << <<"c","l","o","s","e">>, <<"a","t">> >>
            /\ a.question = trim(StoreQuery) => Len(qTokens) = 6
            /\ \A j \in 1..Len(a.idx) :
                 \A cTokens \in {tokenize(a.idx[j].text)} :
                 \A score \in {ScoreOfId(a.scored, a.idx[j].id)} :
                    /\ IsTokenSequenceOf(cTokens, a.idx[j].text)
                    /\ score.d = 1
                    /\ score.n = OccurrencesFound(qTokens, cTokens)
                    /\ 0 <= score.n /\ score.n <= Len(qTokens)
                    /\ a.idx[j].text = extractPdf(ManualPdf).text =>
                         score.n = IF a.question = trim(StoreQuery) THEN 1 ELSE 2
                    /\ a.idx[j].text = extractPdf(MenuPdf).text =>
                         score.n = CASE a.question = trim(SubQuery) -> 3
                                     [] a.question = trim(CloseQuery) -> 1
                                     [] OTHER -> 0
                    /\ a.idx[j].text = extractPdf(StorePdf).text =>
                         score.n = IF a.question = trim(StoreQuery) THEN 2 ELSE 0
                    /\ a.idx[j].text = extractPdf(FryerPdf).text =>
                         /\ cTokens = << <<"f","r","y">>, <<"o","i","l">>, <<"3","5","0","f">> >>
                         /\ score.n = 0

\* An ask of "at AT sub" has ranked by token overlap an index with a chunk that
\* scores 2 (both occurrences of "at" counted, "sub" not found), a chunk that
\* scores 3 although it holds "at" twice, and a chunk that scores 0.
C11_Witness ==
  \E n \in 1..Len(asks) :
    /\ FellBack(asks[n])
    /\ asks[n].question = trim(SubQuery)
    /\ \E j \in 1..Len(asks[n].idx) :
         /\ asks[n].idx[j].text = extractPdf(ManualPdf).text
         /\ ScoreOfId(asks[n].scored, asks[n].idx[j].id).n = 2
    /\ \E j \in 1..Len(asks[n].idx) :
         /\ asks[n].idx[j].text = extractPdf(MenuPdf).text
         /\ ScoreOfId(asks[n].scored, asks[n].idx[j].id).n = 3
    /\ \E j \in 1..Len(asks[n].idx) :
         /\ asks[n].idx[j].text = extractPdf(StorePdf).text
         /\ ScoreOfId(asks[n].scored, asks[n].idx[j].id).n = 0

====
